---- MODULE Spec2Model ----
(***************************************************************************)
(* Model of power_market_dashboard.py: the two fetchers with their local   *)
(* fallback files, the transform process_data, and the run of main.        *)
(*                                                                         *)
(* Tables (pandas DataFrames) are sequences of records, one record per     *)
(* row, one field per column.  A timestamp string of the API is the record *)
(* [h, m] (hour and minute of 2024-03-31, UTC, fixed width), a parsed      *)
(* datetime is the record [instant, tz] with instant in minutes since      *)
(* midnight UTC, and a local datetime carries its wall-clock minutes too.  *)
(* Generation is in MW; emission factors and carbon intensities are kept   *)
(* in tenths of g/kWh, so that 329.4 is 3294.  Columns that no statement   *)
(* of the program reads (dataset, settlementDate, settlementPeriod,        *)
(* boundary, and publishTime of FUELINST) are carried through unchanged    *)
(* and left out.                                                           *)
(***************************************************************************)
EXTENDS Integers, Sequences, FiniteSets, TLC

VARIABLES
    pc,            \* position of main: the step it is about to run
    steps,         \* the steps main has run so far, in order
    fuel_env,      \* what the FUELINST request and fallback file offered
    tsdf_env,      \* what the TSDF request and fallback file offered
    fuel_df,       \* main's generation table (the object passed to process_data)
    tsdf_df,       \* main's demand table (the object passed to process_data)
    fuel_arg,      \* the generation table as it was when process_data was called
    tsdf_arg,      \* the demand table as it was when process_data was called
    pivot,         \* wide table: LocalTime -> row
    area_df,       \* long table
    demand_merge,  \* reconciliation table
    charts,        \* the charts of the dashboard layout
    error          \* the exception that ended the run, if any

vars == <<pc, steps, fuel_env, tsdf_env, fuel_df, tsdf_df, fuel_arg, tsdf_arg,
          pivot, area_df, demand_merge, charts, error>>

-----------------------------------------------------------------------------
(* Bounds of the model *)

MaxFuelRows == 2
MaxDemandRows == 2
MaxPayloadRows == 2

SeqsUpTo(S, n) == UNION {[1..k -> S] : k \in 0..n}
NonEmptySeqsUpTo(S, n) == UNION {[1..k -> S] : k \in 1..n}

T(h, m) == [h |-> h, m |-> m]

-----------------------------------------------------------------------------
(* _categorise_fuel_types *)

category_map ==
    ("CCGT" :> "Gas") @@ ("OCGT" :> "Gas") @@ ("BIOMASS" :> "Biomass")
    @@ ("COAL" :> "Coal/Oil/Other") @@ ("OIL" :> "Coal/Oil/Other")
    @@ ("OTHER" :> "Coal/Oil/Other") @@ ("NUCLEAR" :> "Nuclear")
    @@ ("WIND" :> "Wind") @@ ("NPSHYD" :> "Hydro") @@ ("PS" :> "Hydro")

interconnectors ==
    {"INTELEC", "INTEW", "INTFR", "INTGRNL", "INTIFA2", "INTIRL", "INTNED",
     "INTNEM", "INTNSL", "INTVKL"}

\* Mutant: the interconnector test is dropped, so that an interconnector
\* code falls through to the catch-all category.
categorise_without_interconnectors(fuel_type) ==
    IF fuel_type \in DOMAIN category_map THEN category_map[fuel_type]
    ELSE "Coal/Oil/Other"

_categorise_fuel_types(fuel_type) ==
    IF fuel_type \in DOMAIN category_map THEN category_map[fuel_type]
    ELSE IF fuel_type \in interconnectors THEN "Imports"
    ELSE "Coal/Oil/Other"

-----------------------------------------------------------------------------
(* Timestamps *)

\* pd.to_datetime(..., utc=True) of the string "2024-03-31T<h>:<m>:00Z".
to_datetime(s) == [instant |-> 60 * s.h + s.m, tz |-> "UTC"]

\* Europe/London on 2024-03-31: GMT until 01:00 UTC, BST (UTC+1) from then.
utc_offset(instant) == IF instant >= 60 THEN 60 ELSE 0

\* Series.dt.tz_convert("Europe/London"): the same instant, local wall clock.
tz_convert(t) ==
    [instant |-> t.instant, tz |-> "Europe/London",
     wall |-> t.instant + utc_offset(t.instant)]

\* Series.dt.floor("30min") of a local datetime: the wall clock is floored.
floor_30min(lt) ==
    [instant |-> lt.instant - (lt.wall % 30), tz |-> lt.tz,
     wall |-> lt.wall - (lt.wall % 30)]

\* Order of the raw timestamp strings (lexicographic; the width is fixed).
str_less(a, b) == a.h < b.h \/ (a.h = b.h /\ a.m < b.m)

RECURSIVE sort_index(_)
\* The datetimes of S in increasing order (a sorted index).
sort_index(S) ==
    IF S = {} THEN <<>>
    ELSE LET lo == CHOOSE x \in S : \A y \in S : x.instant <= y.instant
         IN <<lo>> \o sort_index(S \ {lo})

-----------------------------------------------------------------------------
(* process_data: the generation side *)

Cats == <<"Gas", "Biomass", "Nuclear", "Wind", "Hydro", "Imports", "Coal/Oil/Other">>
CatSet == {Cats[i] : i \in 1..Len(Cats)}

\* Mutant: the negative values are kept.
clip_nothing(v) == v

\* Series.clip(lower=0)
clip_lower_0(v) == IF v < 0 THEN 0 ELSE v

\* fuel_df after the column assignments of process_data.
fuel_columns(df) ==
    [i \in 1..Len(df) |->
        LET r == df[i]
            st == to_datetime(r.StartTime)
            lt == tz_convert(st)
        IN [StartTime |-> st, FuelType |-> r.FuelType, Generation |-> r.Generation,
            LocalTime |-> lt,
            Generation_clipped |-> clip_lower_0(r.Generation),
            Category |-> _categorise_fuel_types(r.FuelType),
            LocalHalfHour |-> floor_30min(lt)]]

RECURSIVE sum_clipped(_, _)
\* Sum of Generation_clipped over the rows I of df.
sum_clipped(df, I) ==
    IF I = {} THEN 0
    ELSE LET i == CHOOSE i \in I : TRUE
         IN df[i].Generation_clipped + sum_clipped(df, I \ {i})

\* pivot_table(index=LocalTime, columns=Category, aggfunc="sum").fillna(0):
\* one row per LocalTime, one column per category that occurs in df; a cell
\* with no reading is NaN in the pivot and 0 after fillna.
pivot_table(df) ==
    LET index == {df[i].LocalTime : i \in 1..Len(df)}
        columns == {df[i].Category : i \in 1..Len(df)}
    IN [t \in index |->
          [c \in columns |->
             sum_clipped(df, {i \in 1..Len(df) :
                                 df[i].LocalTime = t /\ df[i].Category = c})]]

\* for col in [...]: if col not in pivot.columns: pivot[col] = 0.0
ensure_columns(p) ==
    [t \in DOMAIN p |->
       [c \in (DOMAIN p[t]) \cup CatSet |->
          IF c \in DOMAIN p[t] THEN p[t][c] ELSE 0]]

\* Mutant: Imports is left out of the total.
total_generation_without_imports(row) ==
    row["Gas"] + row["Biomass"] + row["Nuclear"] + row["Wind"] + row["Hydro"]
    + row["Coal/Oil/Other"]

\* pivot[[the seven categories]].sum(axis=1)
total_generation(row) ==
    row["Gas"] + row["Biomass"] + row["Nuclear"] + row["Wind"] + row["Hydro"]
    + row["Imports"] + row["Coal/Oil/Other"]

\* Emission factors, in tenths of g/kWh.
emission_factors ==
    [c \in CatSet |->
       CASE c = "Gas" -> 3294
         [] c = "Biomass" -> 1200
         [] c = "Coal/Oil/Other" -> 6750
         [] c = "Nuclear" -> 0
         [] c = "Wind" -> 0
         [] c = "Hydro" -> 0
         [] c = "Imports" -> 3294]

RECURSIVE ci_numerator_over(_, _)
ci_numerator_over(row, C) ==
    IF C = {} THEN 0
    ELSE LET c == CHOOSE c \in C : TRUE
         IN row[c] * emission_factors[c] + ci_numerator_over(row, C \ {c})

\* for cat, ef in emission_factors.items(): ci_numerator += pivot[cat] * ef
ci_numerator(row) == ci_numerator_over(row, DOMAIN emission_factors)

NA == [null |-> TRUE]

\* Mutant: the missing carbon intensity is filled with zero.
carbon_intensity_zero_filled(row) ==
    IF row["TotalGeneration"] = 0
    THEN [num |-> 0, den |-> 1]
    ELSE [num |-> ci_numerator(row), den |-> row["TotalGeneration"]]

\* ci_numerator / TotalGeneration.replace(0, pd.NA): the quotient num/den,
\* in tenths of g/kWh as the factors are, or NA.
carbon_intensity(row) ==
    IF row["TotalGeneration"] = 0
    THEN NA
    ELSE [num |-> ci_numerator(row), den |-> row["TotalGeneration"]]

with_total(p) ==
    [t \in DOMAIN p |-> p[t] @@ ("TotalGeneration" :> total_generation(p[t]))]

with_carbon_intensity(p) ==
    [t \in DOMAIN p |-> p[t] @@ ("CarbonIntensity" :> carbon_intensity(p[t]))]

\* The wide table of process_data.
make_pivot(df) == with_carbon_intensity(with_total(ensure_columns(pivot_table(df))))

\* pivot[[the seven categories]].reset_index().melt(id_vars="LocalTime", ...):
\* category by category, each in index order.
melt(p) ==
    LET idx == sort_index(DOMAIN p)
        n == Len(idx)
    IN [j \in 1..(Len(Cats) * n) |->
          LET c == Cats[((j - 1) \div n) + 1]
              t == idx[((j - 1) % n) + 1]
          IN [LocalTime |-> t, Category |-> c, Generation |-> p[t][c]]]

\* fuel_df.groupby("LocalHalfHour")["Generation_clipped"].sum().reset_index()
half_hour_gen(df) ==
    LET keys == sort_index({df[i].LocalHalfHour : i \in 1..Len(df)})
    IN [k \in 1..Len(keys) |->
          [LocalHalfHour |-> keys[k],
           Generation_clipped |->
              sum_clipped(df, {i \in 1..Len(df) : df[i].LocalHalfHour = keys[k]})]]

-----------------------------------------------------------------------------
(* process_data: the demand side and the reconciliation *)

\* tsdf_df after the column assignments of process_data.
tsdf_columns(df) ==
    [i \in 1..Len(df) |->
        LET r == df[i]
            st == to_datetime(r.StartTime)
            lt == tz_convert(st)
        IN [PublishTime |-> r.PublishTime, StartTime |-> st, demand |-> r.demand,
            LocalTime |-> lt, LocalHalfHour |-> floor_30min(lt)]]

RowOrders(n) ==
    {p \in [1..n -> 1..n] : \A i, j \in 1..n : i # j => p[i] # p[j]}

\* tsdf_df.sort_values("PublishTime"): the rows in nondecreasing order of the
\* PublishTime strings.  The default sort is not stable, so rows with equal
\* PublishTime come in any order: every sorted arrangement is an outcome.
sort_values_PublishTime(df) ==
    LET n == Len(df)
        sorted == {p \in RowOrders(n) :
                     \A i \in 1..(n - 1) :
                        ~str_less(df[p[i + 1]].PublishTime, df[p[i]].PublishTime)}
    IN {[i \in 1..n |-> df[p[i]]] : p \in sorted}

RECURSIVE take_rows(_, _, _)
\* The rows of s whose position is in I, from position i on, in order.
take_rows(s, I, i) ==
    IF i > Len(s) THEN <<>>
    ELSE (IF i \in I THEN <<s[i]>> ELSE <<>>) \o take_rows(s, I, i + 1)

\* Mutant: the first row of each group is kept (head(1)).
groupby_LocalHalfHour_head_1(s) ==
    take_rows(s, {i \in 1..Len(s) :
                    \A j \in 1..(i - 1) : s[j].LocalHalfHour # s[i].LocalHalfHour}, 1)

\* .groupby("LocalHalfHour").tail(1): the last row of each group, in the
\* order of s.
groupby_LocalHalfHour_tail_1(s) ==
    take_rows(s, {i \in 1..Len(s) :
                    \A j \in (i + 1)..Len(s) : s[j].LocalHalfHour # s[i].LocalHalfHour}, 1)

RECURSIVE matches(_, _, _)
\* The rows of right that join the row l, from position k on.
matches(l, right, k) ==
    IF k > Len(right) THEN <<>>
    ELSE (IF right[k].LocalHalfHour = l.LocalHalfHour
          THEN <<[LocalHalfHour |-> l.LocalHalfHour, demand |-> l.demand,
                  Generation_clipped |-> right[k].Generation_clipped]>>
          ELSE <<>>) \o matches(l, right, k + 1)

RECURSIVE merge_outer_left(_, _)
\* Mutant: a left join, which keeps the demand windows with no generation
\* (their generation is taken as 0 here).
merge_outer_left(left, right) ==
    IF left = <<>> THEN <<>>
    ELSE LET l == Head(left)
             m == matches(l, right, 1)
         IN (IF m = <<>>
             THEN <<[LocalHalfHour |-> l.LocalHalfHour, demand |-> l.demand,
                     Generation_clipped |-> 0]>>
             ELSE m) \o merge_outer_left(Tail(left), right)

RECURSIVE merge_inner(_, _)
\* pd.merge(left[["LocalHalfHour", "demand"]], right, on="LocalHalfHour",
\* how="inner"): the matching pairs, in the order of the left rows.
merge_inner(left, right) ==
    IF left = <<>> THEN <<>>
    ELSE matches(Head(left), right, 1) \o merge_inner(Tail(left), right)

\* The renaming of the merged columns and the SupplyMinusDemand column.
rename_and_balance(m) ==
    [i \in 1..Len(m) |->
        [LocalHalfHour |-> m[i].LocalHalfHour,
         DemandForecast |-> m[i].demand,
         TotalGeneration |-> m[i].Generation_clipped,
         SupplyMinusDemand |-> m[i].Generation_clipped - m[i].demand]]

\* The reconciliation table, given fuel_df with its columns and the sorted
\* tsdf_df.
make_demand_merge(f, sorted_tsdf) ==
    rename_and_balance(
        merge_inner(groupby_LocalHalfHour_tail_1(sorted_tsdf), half_hour_gen(f)))

-----------------------------------------------------------------------------
(* The fetchers *)

\* What requests.get gave: a response with a status code and the "data" list
\* of its JSON body, or a raised transport exception.
Response(status, data) == [raised |-> FALSE, status_code |-> status, data |-> data]
TransportFailure == [raised |-> TRUE, status_code |-> 0, data |-> <<>>]

\* The local fallback file: absent, or present with its content.  The content
\* of FUELINST.csv is its rows; the content of TSDF.json is a bare list of
\* records, or a dict that holds the list under the key "data".
NoFile == [exists |-> FALSE, is_dict |-> FALSE, content |-> <<>>]
ListFile(records) == [exists |-> TRUE, is_dict |-> FALSE, content |-> records]
DictFile(records) == [exists |-> TRUE, is_dict |-> TRUE, content |-> [data |-> records]]

NoError == [type |-> "none", dataset |-> "", cause |-> "", status |-> 0]
\* raise ValueError("No <dataset> data returned from API.")
EmptyError(dataset) ==
    [type |-> "ValueError", dataset |-> dataset, cause |-> "empty", status |-> 0]
\* raise ValueError("Failed to fetch <dataset> data (HTTP <status>) and no
\* local fallback available.")
RetrievalError(dataset, status) ==
    [type |-> "ValueError", dataset |-> dataset, cause |-> "http", status |-> status]
\* The exception requests.get raises; it carries the URL, which ends in the
\* dataset name.
TransportError(dataset) ==
    [type |-> "ConnectionError", dataset |-> dataset, cause |-> "transport", status |-> 0]
\* tsdf_df["StartTime"] on a table with no columns.
KeyErrorStartTime ==
    [type |-> "KeyError", dataset |-> "", cause |-> "StartTime", status |-> 0]

Returned(df) == [ok |-> TRUE, df |-> df, error |-> NoError]
Raised(e) == [ok |-> FALSE, df |-> <<>>, error |-> e]

\* df.rename(columns={...}) of fetch_fuelinst_data
rename_fuelinst(data) ==
    [i \in 1..Len(data) |->
        [StartTime |-> data[i].startTime, FuelType |-> data[i].fuelType,
         Generation |-> data[i].generation]]

\* df.rename(columns={...}) of fetch_tsdf_data ("demand" is not renamed)
rename_tsdf(data) ==
    [i \in 1..Len(data) |->
        [PublishTime |-> data[i].publishTime, StartTime |-> data[i].startTime,
         demand |-> data[i].demand]]

fetch_fuelinst_data(response, fallback) ==
    IF response.raised THEN Raised(TransportError("FUELINST"))
    ELSE IF response.status_code = 200
    THEN IF response.data = <<>>
         THEN Raised(EmptyError("FUELINST"))
         ELSE Returned(rename_fuelinst(response.data))
    ELSE IF fallback.exists
         THEN Returned(rename_fuelinst(fallback.content))
         ELSE Raised(RetrievalError("FUELINST", response.status_code))

\* if isinstance(fallback_data, dict) and "data" in fallback_data:
\*     fallback_data = fallback_data["data"]
json_records(fallback) ==
    IF fallback.is_dict /\ "data" \in DOMAIN fallback.content
    THEN fallback.content.data
    ELSE fallback.content

fetch_tsdf_data(response, fallback) ==
    IF response.raised THEN Raised(TransportError("TSDF"))
    ELSE IF response.status_code = 200
    THEN IF response.data = <<>>
         THEN Raised(EmptyError("TSDF"))
         ELSE Returned(rename_tsdf(response.data))
    ELSE IF fallback.exists
         THEN Returned(rename_tsdf(json_records(fallback)))
         ELSE Raised(RetrievalError("TSDF", response.status_code))

-----------------------------------------------------------------------------
(* The dashboard *)

\* pivot_df["CarbonIntensity"].max(): the greatest value that is not NA, or
\* NA when there is none.
ci_max(p) ==
    LET vals == {p[t]["CarbonIntensity"] : t \in DOMAIN p} \ {NA}
    IN IF vals = {} THEN NA
       ELSE CHOOSE v \in vals : \A w \in vals : w.num * v.den <= v.num * w.den

\* The charts of the layout built by create_dashboard.
dashboard_charts(p, demand_df) ==
    LET top == ci_max(p)
        range == IF top # NA /\ top.num > 0
                 THEN [auto |-> FALSE, lo |-> 0,
                       hi |-> [num |-> 11 * top.num, den |-> 10 * top.den]]
                 ELSE [auto |-> TRUE]
    IN <<[title |-> "Generation Mix by Fuel Category", yaxis_range |-> [auto |-> TRUE]],
         [title |-> "Estimated Carbon Intensity", yaxis_range |-> range]>>
       \o (IF demand_df.given /\ demand_df.table # <<>>
           THEN <<[title |-> "Supply Minus Demand (Half-hourly)",
                   yaxis_range |-> [auto |-> TRUE]]>>
           ELSE <<>>)

-----------------------------------------------------------------------------
(* The inputs *)

StatusCodes == {200, 404, 503}

\* Payloads of the run of main.
FuelPayloadRecords ==
    {[startTime |-> T(0, 55), fuelType |-> "CCGT", generation |-> 100],
     [startTime |-> T(1, 0), fuelType |-> "PS", generation |-> -50]}
TsdfPayloadRecords ==
    {[publishTime |-> T(10, 0), startTime |-> T(0, 30), demand |-> 500],
     [publishTime |-> T(10, 5), startTime |-> T(1, 30), demand |-> 520]}
FuelPayloads == SeqsUpTo(FuelPayloadRecords, MaxPayloadRows)
TsdfPayloads == SeqsUpTo(TsdfPayloadRecords, MaxPayloadRows)

Responses(payloads) ==
    {TransportFailure}
    \cup {Response(200, d) : d \in payloads}
    \cup {Response(c, <<>>) : c \in StatusCodes \ {200}}
FuelFallbacks == {NoFile} \cup {ListFile(d) : d \in FuelPayloads}
TsdfFallbacks ==
    {NoFile} \cup {ListFile(d) : d \in TsdfPayloads}
             \cup {DictFile(d) : d \in TsdfPayloads}

\* Inputs of process_data taken alone: three families.
\* (a) the wide table: two intervals, one fuel code per category.
WideCodes == {"CCGT", "BIOMASS", "COAL", "NUCLEAR", "WIND", "PS", "INTFR"}
WideFuelRecords ==
    [startTime : {T(0, 55), T(1, 0)}, fuelType : WideCodes,
     generation : {-50, 50, 100}]
\* (b) the reconciliation: three intervals in the half hours 00:30 and 01:00,
\* and demand records, with revisions, for the half hours 01:00 and 01:30.
ReconFuelRecords ==
    [startTime : {T(0, 55), T(1, 0), T(1, 5)}, fuelType : {"PS"},
     generation : {-50, 100}]
DemandRecords ==
    [publishTime : {T(10, 0), T(10, 5)}, startTime : {T(1, 0), T(1, 30)},
     demand : {500, 520}]
\* (c) the categorisation: every code of the map, every interconnector and
\* some strings that are neither.
UnknownCodes == {"SOLAR", "ccgt", ""}
AllCodes == (DOMAIN category_map) \cup interconnectors \cup UnknownCodes
CatFuelRecords ==
    [startTime : {T(0, 55)}, fuelType : AllCodes, generation : {100}]
OneDemand == <<[publishTime |-> T(10, 0), startTime |-> T(0, 30), demand |-> 500]>>

ProcessInputs ==
    (NonEmptySeqsUpTo(WideFuelRecords, MaxFuelRows) \X {OneDemand})
    \cup (NonEmptySeqsUpTo(ReconFuelRecords, MaxFuelRows)
          \X NonEmptySeqsUpTo(DemandRecords, MaxDemandRows))
    \cup (NonEmptySeqsUpTo(CatFuelRecords, MaxFuelRows) \X {OneDemand})

-----------------------------------------------------------------------------
(* main *)

NotRequested == [requested |-> FALSE, response |-> TransportFailure, fallback |-> NoFile]
Requested(response, fallback) ==
    [requested |-> TRUE, response |-> response, fallback |-> fallback]

\* Mutant: main catches the exception and carries on with the next step.
after_exception_swallowed(next) == next

\* main has no handler: an exception raised by a step ends the run.
after_exception(next) == "failed"

Init ==
    /\ pc = "fetch_fuelinst_data"
    /\ steps = <<>>
    /\ fuel_env = NotRequested
    /\ tsdf_env = NotRequested
    /\ fuel_df = <<>>
    /\ tsdf_df = <<>>
    /\ fuel_arg = <<>>
    /\ tsdf_arg = <<>>
    /\ pivot = <<>>
    /\ area_df = <<>>
    /\ demand_merge = <<>>
    /\ charts = <<>>
    /\ error = NoError

\* fuel_df = fetch_fuelinst_data()
FetchFuelinst ==
    /\ pc = "fetch_fuelinst_data"
    /\ \E response \in Responses(FuelPayloads), fallback \in FuelFallbacks :
          LET r == fetch_fuelinst_data(response, fallback)
          IN /\ fuel_env' = Requested(response, fallback)
             /\ fuel_df' = r.df
             /\ error' = r.error
             /\ pc' = IF r.ok THEN "fetch_tsdf_data"
                      ELSE after_exception("fetch_tsdf_data")
    /\ steps' = Append(steps, "fetch_fuelinst_data")
    /\ UNCHANGED <<tsdf_env, tsdf_df, fuel_arg, tsdf_arg, pivot, area_df,
                   demand_merge, charts>>

\* tsdf_df = fetch_tsdf_data()
FetchTsdf ==
    /\ pc = "fetch_tsdf_data"
    /\ \E response \in Responses(TsdfPayloads), fallback \in TsdfFallbacks :
          LET r == fetch_tsdf_data(response, fallback)
          IN /\ tsdf_env' = Requested(response, fallback)
             /\ tsdf_df' = r.df
             /\ error' = IF r.ok THEN error ELSE r.error
             /\ pc' = IF r.ok THEN "process_data"
                      ELSE after_exception("process_data")
    /\ steps' = Append(steps, "fetch_tsdf_data")
    /\ UNCHANGED <<fuel_env, fuel_df, fuel_arg, tsdf_arg, pivot, area_df,
                   demand_merge, charts>>

\* pivot_df, area_df, demand_merge = process_data(fuel_df, tsdf_df)
\* The two tables are passed by reference: the column assignments of
\* process_data act on main's own tables.  A demand table built from an empty
\* list has no columns, and reading its StartTime raises KeyError after the
\* generation table has got its columns.  A generation table with its
\* columns and no rows (a fallback file of a header alone) goes through and
\* gives empty tables.
ProcessData ==
    /\ pc = "process_data"
    /\ steps' = Append(steps, "process_data")
    /\ fuel_arg' = fuel_df
    /\ tsdf_arg' = tsdf_df
    /\ fuel_df' = fuel_columns(fuel_df)
    /\ IF tsdf_df = <<>>
       THEN /\ error' = KeyErrorStartTime
            /\ pc' = after_exception("create_dashboard")
            /\ UNCHANGED <<tsdf_df, pivot, area_df, demand_merge>>
       ELSE /\ tsdf_df' = tsdf_columns(tsdf_df)
            /\ pivot' = make_pivot(fuel_df')
            /\ area_df' = melt(pivot')
            /\ \E s \in sort_values_PublishTime(tsdf_df') :
                  demand_merge' = make_demand_merge(fuel_df', s)
            /\ pc' = "create_dashboard"
            /\ UNCHANGED error
    /\ UNCHANGED <<fuel_env, tsdf_env, charts>>

\* app = create_dashboard(area_df, pivot_df,
\*                        demand_merge if not demand_merge.empty else None)
CreateDashboard ==
    /\ pc = "create_dashboard"
    /\ steps' = Append(steps, "create_dashboard")
    /\ charts' = dashboard_charts(pivot,
                    [given |-> demand_merge # <<>>, table |-> demand_merge])
    /\ pc' = "run_server"
    /\ UNCHANGED <<fuel_env, tsdf_env, fuel_df, tsdf_df, fuel_arg, tsdf_arg,
                   pivot, area_df, demand_merge, error>>

\* app.run_server(debug=False): serves until the process ends.
RunServer ==
    /\ pc = "run_server"
    /\ steps' = Append(steps, "run_server")
    /\ pc' = "serving"
    /\ UNCHANGED <<fuel_env, tsdf_env, fuel_df, tsdf_df, fuel_arg, tsdf_arg,
                   pivot, area_df, demand_merge, charts, error>>

Next == FetchFuelinst \/ FetchTsdf \/ ProcessData \/ CreateDashboard \/ RunServer

Spec == Init /\ [][Next]_vars

\* process_data taken alone: the state of main after two successful
\* requests, for every pair of payloads of ProcessInputs.
InitProcess ==
    /\ pc = "process_data"
    /\ steps = <<"fetch_fuelinst_data", "fetch_tsdf_data">>
    /\ \E inp \in ProcessInputs :
          /\ fuel_env = Requested(Response(200, inp[1]), NoFile)
          /\ tsdf_env = Requested(Response(200, inp[2]), NoFile)
          /\ fuel_df = fetch_fuelinst_data(Response(200, inp[1]), NoFile).df
          /\ tsdf_df = fetch_tsdf_data(Response(200, inp[2]), NoFile).df
    /\ fuel_arg = <<>>
    /\ tsdf_arg = <<>>
    /\ pivot = <<>>
    /\ area_df = <<>>
    /\ demand_merge = <<>>
    /\ charts = <<>>
    /\ error = NoError

NextProcess == ProcessData

SpecProcess == InitProcess /\ [][NextProcess]_vars

-----------------------------------------------------------------------------
(* Vocabulary of the properties *)

Ran(step) == \E k \in 1..Len(steps) : steps[k] = step

\* process_data has returned its three tables.
Processed == Ran("process_data") /\ pc # "failed"

\* The request did not succeed: a transport failure or a status other than 200.
NetworkFailed(env) == env.response.raised \/ env.response.status_code # 200

\* Minutes since midnight UTC of a raw timestamp, and its half hour.
MinutesOf(ts) == 60 * ts.h + ts.m
HalfHourOf(ts) == MinutesOf(ts) \div 30
\* The half hour of a window of the reconciliation table.
HalfHourOfWindow(w) == w.instant \div 30

\* The rows of a table as passed to process_data that start in half hour w.
RowsInHalfHour(df, w) == {i \in 1..Len(df) : HalfHourOf(df[i].StartTime) = w}
HalfHours(df) == {HalfHourOf(df[i].StartTime) : i \in 1..Len(df)}

RECURSIVE SumPositive(_, _)
\* Sum over the rows I of df of the generation readings above zero.
SumPositive(df, I) ==
    IF I = {} THEN 0
    ELSE LET i == CHOOSE i \in I : TRUE
         IN (IF df[i].Generation > 0 THEN df[i].Generation ELSE 0)
            + SumPositive(df, I \ {i})

MergeRows(w) ==
    {k \in 1..Len(demand_merge) : HalfHourOfWindow(demand_merge[k].LocalHalfHour) = w}

FetchSteps == {"fetch_fuelinst_data", "fetch_tsdf_data"}
MainOrder ==
    <<"fetch_fuelinst_data", "fetch_tsdf_data", "process_data",
      "create_dashboard", "run_server">>

-----------------------------------------------------------------------------
(* Properties *)

\* C1: for each fetcher, whenever the network call does not succeed (a status
\* other than 200, or the request raising), the fallback file is tried: if it
\* exists its records are returned, and if it is absent the fetcher fails
\* with an error that names the dataset and the cause.
C1_FallbackOnEveryNetworkFailure ==
    /\ (steps = <<"fetch_fuelinst_data">> /\ NetworkFailed(fuel_env)) =>
          IF fuel_env.fallback.exists
          THEN /\ pc = "fetch_tsdf_data"
               /\ error = NoError
               /\ fuel_df = rename_fuelinst(fuel_env.fallback.content)
          ELSE /\ pc = "failed"
               /\ error.type # "none"
               /\ error.dataset = "FUELINST"
               /\ error.cause \in {"http", "transport"}
    /\ (steps = <<"fetch_fuelinst_data", "fetch_tsdf_data">> /\ NetworkFailed(tsdf_env)) =>
          IF tsdf_env.fallback.exists
          THEN /\ pc = "process_data"
               /\ error = NoError
               /\ tsdf_df = rename_tsdf(json_records(tsdf_env.fallback))
          ELSE /\ pc = "failed"
               /\ error.type # "none"
               /\ error.dataset = "TSDF"
               /\ error.cause \in {"http", "transport"}

\* C2: a fetcher returns a non-empty table or fails: a table a fetcher has
\* returned to main is never empty.
C2_FetcherNeverReturnsEmpty ==
    /\ (steps = <<"fetch_fuelinst_data">> /\ pc = "fetch_tsdf_data") => fuel_df # <<>>
    /\ (steps = <<"fetch_fuelinst_data", "fetch_tsdf_data">> /\ pc = "process_data") =>
          tsdf_df # <<>>

\* C3: after process_data(fuel_df, tsdf_df) the caller's two tables have the
\* columns and the cell values they had before the call.
C3_InputsUnchanged ==
    Ran("process_data") =>
        /\ Len(fuel_df) = Len(fuel_arg)
        /\ \A i \in 1..Len(fuel_df) : DOMAIN fuel_df[i] = DOMAIN fuel_arg[i]
        /\ fuel_df = fuel_arg
        /\ Len(tsdf_df) = Len(tsdf_arg)
        /\ \A i \in 1..Len(tsdf_df) : DOMAIN tsdf_df[i] = DOMAIN tsdf_arg[i]
        /\ tsdf_df = tsdf_arg

\* C4: in the reconciliation table, a half-hour window that has several
\* demand records appears in one row only (in one row exactly when the window
\* has generation readings too), and the DemandForecast of that row is the
\* demand of a record with the latest publish time among the demand records
\* of the window.
C4_LatestRevisionWins ==
    Processed =>
        \A w \in HalfHours(tsdf_arg) :
            LET recs == RowsInHalfHour(tsdf_arg, w)
                latest == {i \in recs :
                             \A j \in recs :
                                MinutesOf(tsdf_arg[j].PublishTime)
                                   <= MinutesOf(tsdf_arg[i].PublishTime)}
            IN Cardinality(recs) >= 2 =>
                  /\ Cardinality(MergeRows(w))
                        = (IF w \in HalfHours(fuel_arg) THEN 1 ELSE 0)
                  /\ \A k \in MergeRows(w) :
                        demand_merge[k].DemandForecast
                           \in {tsdf_arg[i].demand : i \in latest}

\* C4 witness: the window 01:00 has the revisions 10:05 -> 520 and
\* 10:00 -> 500 (the later one first in the table) and its row says 520.
C4_Witness ==
    /\ Processed
    /\ tsdf_arg = <<[PublishTime |-> T(10, 5), StartTime |-> T(1, 0), demand |-> 520],
                    [PublishTime |-> T(10, 0), StartTime |-> T(1, 0), demand |-> 500]>>
    /\ Len(demand_merge) = 1
    /\ demand_merge[1].DemandForecast = 520

\* C5: the reconciliation table has a row for a half-hour window if and only
\* if the window occurs in both the generation and the demand series, and
\* then one row; TotalGeneration is the sum of the clipped readings of the
\* window, SupplyMinusDemand = TotalGeneration - DemandForecast; with no
\* common window the table is empty and no error is raised.
C5_InnerJoinOnWindow ==
    (Ran("process_data") /\ tsdf_arg # <<>>) =>
        /\ Processed
        /\ error = NoError
        /\ \A w \in HalfHours(fuel_arg) \cup HalfHours(tsdf_arg) :
              Cardinality(MergeRows(w))
                 = (IF w \in HalfHours(fuel_arg) \cap HalfHours(tsdf_arg) THEN 1 ELSE 0)
        /\ \A k \in 1..Len(demand_merge) :
              LET row == demand_merge[k]
                  w == HalfHourOfWindow(row.LocalHalfHour)
              IN /\ w \in HalfHours(fuel_arg) \cap HalfHours(tsdf_arg)
                 /\ row.LocalHalfHour.instant = 30 * w
                 /\ row.TotalGeneration
                       = SumPositive(fuel_arg, RowsInHalfHour(fuel_arg, w))
                 /\ row.SupplyMinusDemand = row.TotalGeneration - row.DemandForecast
        /\ (HalfHours(fuel_arg) \cap HalfHours(tsdf_arg) = {}) => demand_merge = <<>>

\* C5 witness: generation in the half hours 00:30 and 01:00, demand for
\* 01:00 and 01:30: one row, for 01:00.
C5_Witness ==
    /\ Processed
    /\ Len(fuel_arg) = 2
    /\ HalfHours(fuel_arg) = {1, 2}
    /\ HalfHours(tsdf_arg) = {2, 3}
    /\ Len(demand_merge) = 1
    /\ demand_merge[1].TotalGeneration = 100
    /\ demand_merge[1].DemandForecast = 520
    /\ demand_merge[1].SupplyMinusDemand = -420

\* C6: at every interval of the wide table, CarbonIntensity is null when
\* TotalGeneration is 0, and otherwise it is the quotient of
\* 329.4 Gas + 120 Biomass + 675 Coal/Oil/Other + 329.4 Imports (+ 0 for
\* Nuclear, Wind and Hydro) by TotalGeneration (the quotient num/den in
\* tenths of g/kWh: num = 3294 Gas + ..., den = TotalGeneration).
C6_CarbonIntensity ==
    Processed =>
        \A t \in DOMAIN pivot :
            LET row == pivot[t]
                ci == row["CarbonIntensity"]
            IN IF row["TotalGeneration"] = 0
               THEN ci = NA
               ELSE /\ ci # NA
                    /\ ci.den = row["TotalGeneration"]
                    /\ ci.num = 3294 * row["Gas"] + 1200 * row["Biomass"]
                                + 6750 * row["Coal/Oil/Other"]
                                + 3294 * row["Imports"] + 0 * row["Nuclear"]
                                + 0 * row["Wind"] + 0 * row["Hydro"]

\* C6 witness: one interval has only a negative reading, hence total 0 and
\* a null CarbonIntensity; the other has Gas 100 and CarbonIntensity
\* 32940/100 g/kWh.
C6_Witness ==
    /\ Processed
    /\ \E t, u \in DOMAIN pivot :
          /\ pivot[t]["TotalGeneration"] = 0
          /\ pivot[t]["CarbonIntensity"] = NA
          /\ pivot[u]["Gas"] = 100
          /\ pivot[u]["TotalGeneration"] = 100
          /\ pivot[u]["CarbonIntensity"] # NA
          /\ 100 * pivot[u]["CarbonIntensity"].num
                = 10 * 32940 * pivot[u]["CarbonIntensity"].den

\* C7: at every interval of the wide table each of the seven categories has
\* a value (0 when no reading of the category fell in the interval) and
\* TotalGeneration is the sum of the seven.
C7_RectangularAndTotal ==
    Processed =>
        \A t \in DOMAIN pivot :
            LET row == pivot[t]
            IN /\ CatSet \subseteq DOMAIN row
               /\ \A c \in CatSet :
                     /\ row[c] \in Int
                     /\ (\A i \in 1..Len(fuel_df) :
                            ~(fuel_df[i].LocalTime = t /\ fuel_df[i].Category = c))
                        => row[c] = 0
               /\ row["TotalGeneration"]
                     = row["Gas"] + row["Biomass"] + row["Nuclear"] + row["Wind"]
                       + row["Hydro"] + row["Imports"] + row["Coal/Oil/Other"]

\* C7 witness: two intervals, Imports read in the one and Gas in the other;
\* every category has a value at both and the totals are the sums.
C7_Witness ==
    /\ Processed
    /\ Cardinality(DOMAIN pivot) = 2
    /\ \E t, u \in DOMAIN pivot :
          /\ t # u
          /\ pivot[t]["Imports"] = 50 /\ pivot[t]["Gas"] = 0
          /\ pivot[t]["TotalGeneration"] = 50
          /\ pivot[u]["Gas"] = 100 /\ pivot[u]["Imports"] = 0
          /\ pivot[u]["TotalGeneration"] = 100

\* C8: every category value and every TotalGeneration of the wide table, the
\* long table and the reconciliation table is >= 0, and each is the sum of
\* the readings above zero only: a negative reading contributes 0.
C8_ClippingLaw ==
    Processed =>
        /\ \A t \in DOMAIN pivot :
              /\ pivot[t]["TotalGeneration"] >= 0
              /\ pivot[t]["TotalGeneration"]
                    = SumPositive(fuel_df, {i \in 1..Len(fuel_df) : fuel_df[i].LocalTime = t})
              /\ \A c \in CatSet :
                    /\ pivot[t][c] >= 0
                    /\ pivot[t][c]
                          = SumPositive(fuel_df,
                               {i \in 1..Len(fuel_df) :
                                   fuel_df[i].LocalTime = t /\ fuel_df[i].Category = c})
        /\ \A j \in 1..Len(area_df) :
              /\ area_df[j].Generation >= 0
              /\ area_df[j].Generation = pivot[area_df[j].LocalTime][area_df[j].Category]
        /\ \A k \in 1..Len(demand_merge) :
              /\ demand_merge[k].TotalGeneration >= 0
              /\ demand_merge[k].TotalGeneration
                    = SumPositive(fuel_df,
                         {i \in 1..Len(fuel_df) :
                             fuel_df[i].LocalHalfHour = demand_merge[k].LocalHalfHour})

\* C8 witness: a reading of -50 and a reading of 100 of one category at one
\* interval: the category, the total and the half-hourly total are all 100.
C8_Witness ==
    /\ Processed
    /\ Len(fuel_arg) = 2
    /\ fuel_arg[1].Generation = -50 /\ fuel_arg[2].Generation = 100
    /\ fuel_arg[1].FuelType = "PS" /\ fuel_arg[2].FuelType = "PS"
    /\ fuel_arg[1].StartTime = T(0, 55) /\ fuel_arg[2].StartTime = T(0, 55)
    /\ \E t \in DOMAIN pivot : pivot[t]["Hydro"] = 100 /\ pivot[t]["TotalGeneration"] = 100
    /\ Len(area_df) = 7
    /\ Len(demand_merge) = 1
    /\ demand_merge[1].TotalGeneration = 100

\* C9: _categorise_fuel_types gives a code of the category map its mapped
\* category, an interconnector code Imports and any other string
\* Coal/Oil/Other; the result is one of the seven categories and the call
\* never fails.
C9_CategoriseTotal ==
    Ran("process_data") =>
        /\ Len(fuel_df) = Len(fuel_arg)
        /\ \A i \in 1..Len(fuel_df) :
              LET code == fuel_arg[i].FuelType
                  cat == fuel_df[i].Category
              IN /\ cat \in CatSet
                 /\ code \in DOMAIN category_map => cat = category_map[code]
                 /\ code \in interconnectors => cat = "Imports"
                 /\ code \notin (DOMAIN category_map) \cup interconnectors
                       => cat = "Coal/Oil/Other"
                 /\ code \in {"CCGT", "OCGT"} <=> cat = "Gas"
                 /\ code \in {"NPSHYD", "PS"} <=> cat = "Hydro"

\* C9 witness: an interconnector code and a string that is in neither table
\* have been categorised as Imports and Coal/Oil/Other.
C9_Witness ==
    /\ Ran("process_data")
    /\ Len(fuel_df) = 2
    /\ fuel_df[1].FuelType = "INTNSL" /\ fuel_df[1].Category = "Imports"
    /\ fuel_df[2].FuelType = "SOLAR" /\ fuel_df[2].Category = "Coal/Oil/Other"

\* C10: main runs fetch generation, fetch demand, transform, render, serve in
\* that order, each at most once, and once a fetch has failed (transport,
\* retrieval or empty dataset) the run has stopped there: no transform, no
\* rendering and no server start is among its steps.
C10_MainOrderAndStop ==
    /\ Len(steps) <= Len(MainOrder)
    /\ steps = SubSeq(MainOrder, 1, Len(steps))
    /\ (error.cause \in {"http", "empty", "transport"}) =>
          /\ pc = "failed"
          /\ steps[Len(steps)] \in FetchSteps
          /\ ~Ran("process_data") /\ ~Ran("create_dashboard") /\ ~Ran("run_server")
          /\ pivot = <<>> /\ area_df = <<>> /\ demand_merge = <<>> /\ charts = <<>>

\* C10 witness: the generation fetch returned, the demand fetch failed with
\* the retrieval error, and the run stopped after those two steps.
C10_Witness ==
    /\ pc = "failed"
    /\ steps = <<"fetch_fuelinst_data", "fetch_tsdf_data">>
    /\ fuel_df # <<>>
    /\ error = RetrievalError("TSDF", 503)

====
